---- MODULE Spec2Model ----
(***************************************************************************)
(* CfninitStack (lib/cfninit-stack.ts): the constructor declares a VPC, a  *)
(* security group, an auto-scaling group with a cfn-init recipe and        *)
(* creation-policy signals, and a three-stage CodePipeline.  The model has *)
(* two parts.  The first is the constructor, statement by statement, which *)
(* builds the template.  The second is the platform acting on the template *)
(* the constructor produced: CloudFormation creating the stack, instances  *)
(* running cfn-init, CodePipeline and CodeBuild running an execution.  The *)
(* platform's steps follow the documented behaviour of the services the    *)
(* declarations address; everything they act on is read from the template. *)
(***************************************************************************)
EXTENDS Integers, Sequences, FiniteSets, TLC

\* ---------------------------------------------------------------------------
\* Bounds of the model
\* ---------------------------------------------------------------------------
MaxPackages == 2

MaxExecutions == 2

MaxBoots == 2

MaxRotations == 1

\* ---------------------------------------------------------------------------
\* Inputs
\* ---------------------------------------------------------------------------
PackageNames == {"nginx", "httpd"}

SecretValues == {"ghp_A", "ghp_B"}

SecretNames == {"github-token"}

RECURSIVE SeqsUpTo(_, _)
SeqsUpTo(S, n) ==
  IF n = 0 THEN {<<>>}
  ELSE LET shorter == SeqsUpTo(S, n - 1)
       IN  shorter \cup {Append(s, x) : s \in {q \in shorter : Len(q) = n - 1}, x \in S}

\* the recipes considered: one InitPackage.yum(name) per entry, in order
PackageLists == SeqsUpTo(PackageNames, MaxPackages) \ {<<>>}

Range(s) == {s[i] : i \in DOMAIN s}

Min(a, b) == IF a < b THEN a ELSE b

\* ---------------------------------------------------------------------------
\* Network layer
\* ---------------------------------------------------------------------------
IpAddressesCidr(cidr) == cidr

\* the tiers a Vpc gets when none are configured
SubnetConfiguration_Default ==
  << [cidrMask |-> 24, name |-> "Public", subnetType |-> "PUBLIC"],
     [cidrMask |-> 24, name |-> "Private", subnetType |-> "PRIVATE_WITH_EGRESS"] >>

SubnetConfiguration == << [cidrMask |-> 24, name |-> "Public", subnetType |-> "PUBLIC"] >>

\* Vpc: natGateways is capped by the number of availability zones in use
determineNatGatewayCount(requested, azCount) == Min(requested, azCount)

NewVpc ==
  LET maxAzs == 1
      natGateways == 1
  IN  [ vpcName             |-> "cfninit-vpc",
        ipAddresses         |-> IpAddressesCidr("10.0.0.0/16"),
        maxAzs              |-> maxAzs,
        natGateways         |-> determineNatGatewayCount(natGateways, maxAzs),
        subnetConfiguration |-> SubnetConfiguration,
        \* one subnet per configured tier and availability zone
        subnets             |-> { [tier |-> SubnetConfiguration[i].name,
                                   subnetType |-> SubnetConfiguration[i].subnetType,
                                   az |-> z] :
                                  i \in DOMAIN SubnetConfiguration, z \in 1..maxAzs } ]

\* ---------------------------------------------------------------------------
\* Access-control layer
\* ---------------------------------------------------------------------------
PeerAnyIpv4 == [cidrIp |-> "0.0.0.0/0"]

PeerIpv4(cidr) == [cidrIp |-> cidr]

PortTcp(p) == [protocol |-> "tcp", fromPort |-> p, toPort |-> p]

AllTraffic == [protocol |-> "-1", fromPort |-> 0, toPort |-> 65535]

\* a security-group rule only ever permits traffic
Rule(peer, port, description) ==
  [effect |-> "allow", peer |-> peer, port |-> port, description |-> description]

NewSecurityGroup(vpc) ==
  LET allowAllOutbound == TRUE
  IN  [ securityGroupName |-> "cfninit-sg",
        vpc               |-> vpc.vpcName,
        allowAllOutbound  |-> allowAllOutbound,
        ingress           |-> <<>>,
        egress            |-> IF allowAllOutbound
                              THEN << Rule(PeerAnyIpv4, AllTraffic, "Allow all outbound traffic by default") >>
                              ELSE <<>> ]

\* compares the peer alone
hasIngressRule_PeerOnly(sg, peer, port) ==
  \E i \in DOMAIN sg.ingress : sg.ingress[i].peer = peer

hasIngressRule(sg, peer, port) ==
  \E i \in DOMAIN sg.ingress : sg.ingress[i].peer = peer /\ sg.ingress[i].port = port

\* SecurityGroup.addIngressRule: a rule already present is not added again
addIngressRule(sg, peer, port, description) ==
  IF hasIngressRule(sg, peer, port) THEN sg
  ELSE [sg EXCEPT !.ingress = Append(@, Rule(peer, port, description))]

\* the three addIngressRule calls of the constructor, in program order
IngressCalls ==
  << [peer |-> PeerAnyIpv4,           port |-> PortTcp(443), description |-> "allow https access"],
     [peer |-> PeerAnyIpv4,           port |-> PortTcp(80),  description |-> "allow http access"],
     [peer |-> PeerIpv4("0.0.0.0/0"), port |-> PortTcp(22),  description |-> "allow ssh access"] >>

\* ---------------------------------------------------------------------------
\* Compute layer: the cfn-init recipe
\* ---------------------------------------------------------------------------
InitPackageYum(name) == [elementType |-> "PACKAGE", key |-> name, value |-> "yum"]

InitCommandShellCommand(cmd) == [elementType |-> "COMMAND", key |-> "shell", value |-> cmd]

InitFileFromAsset(target, path) == [elementType |-> "FILE", key |-> target, value |-> path]

\* InitService.enable: enabled and ensureRunning; the restart handle is a
\* fresh one that no other element of the recipe shares
InitServiceEnable(name) == [elementType |-> "SERVICE", key |-> name, value |-> "enabled+running"]

\* the recipe without its InitFile element
RecipeElements_NoFile(env) ==
  [i \in 1..Len(env.packages) |-> InitPackageYum(env.packages[i])] \o
  << InitCommandShellCommand("sudo yum install php php-fpm php-xml php-mbstring php-zip php-bcmath php-tokenizer ruby wget sqlite -y"),
     InitServiceEnable("nginx") >>

\* the arguments of CloudFormationInit.fromElements, in the order written
RecipeElements(env) ==
  [i \in 1..Len(env.packages) |-> InitPackageYum(env.packages[i])] \o
  << InitCommandShellCommand("sudo yum install php php-fpm php-xml php-mbstring php-zip php-bcmath php-tokenizer ruby wget sqlite -y"),
     InitFileFromAsset("/etc/nginx/conf.d/laravel.conf", "cfninit/laravel.conf"),
     InitServiceEnable("nginx") >>

\* the elements of one type, in the order written
RECURSIVE OfType(_, _)
OfType(elements, type) ==
  IF elements = <<>> THEN <<>>
  ELSE LET rest == OfType(Tail(elements), type)
       IN  IF Head(elements).elementType = type THEN <<Head(elements)>> \o rest ELSE rest

\* deepMerge of the elements' configs: an entry whose key is already present
\* merges into it, so a key appears once, where it was first written
RECURSIVE MergeByKey(_, _)
MergeByKey(acc, elements) ==
  IF elements = <<>> THEN acc
  ELSE MergeByKey(IF \E i \in DOMAIN acc : acc[i].key = Head(elements).key
                  THEN acc ELSE Append(acc, Head(elements)),
                  Tail(elements))

\* commands are keyed by their position ("000", "001", ...) and never merge
bindForType(elements, type) ==
  IF type = "COMMAND" THEN OfType(elements, type)
  ELSE MergeByKey(<<>>, OfType(elements, type))

\* CloudFormationInit.fromElements: one config whose sections are keyed by
\* element type; the position of an element among elements of other types
\* is not part of the rendered metadata
fromElements(elements) ==
  [ packages |-> bindForType(elements, "PACKAGE"),
    files    |-> bindForType(elements, "FILE"),
    commands |-> bindForType(elements, "COMMAND"),
    services |-> bindForType(elements, "SERVICE") ]

\* cfn-init applies the sections of a config in this fixed order (of the
\* sections the recipe uses: packages, files, commands, services)
cfnInitSteps(config) ==
  config.packages \o config.files \o config.commands \o config.services

\* ---------------------------------------------------------------------------
\* Compute layer: the auto-scaling group
\* ---------------------------------------------------------------------------
DurationMinutes(n) == n

\* takes the count for the percentage and the percentage for the count
waitForCount_Swapped(count, minSuccessPercentage, timeout) ==
  [count |-> minSuccessPercentage, minSuccessPercentage |-> count, timeout |-> timeout]

\* drops the percentage: no success is required
waitForCount_NoQuorum(count, minSuccessPercentage, timeout) ==
  [count |-> count, minSuccessPercentage |-> 0, timeout |-> timeout]

\* Signals.waitForCount(count, {minSuccessPercentage, timeout})
waitForCount(count, minSuccessPercentage, timeout) ==
  [count |-> count, minSuccessPercentage |-> minSuccessPercentage, timeout |-> timeout]

Signals == waitForCount(1, 80, DurationMinutes(5))

NewLaunchTemplate(securityGroup) ==
  [ instanceType  |-> "t2.micro",
    machineImage  |-> "AMAZON_LINUX_2023",
    securityGroup |-> securityGroup.securityGroupName,
    role          |-> [assumedBy |-> "ec2.amazonaws.com",
                       managedPolicies |-> <<"AmazonSSMManagedInstanceCore">>],
    keyPair       |-> "CfnInitKeyPair" ]

NewAutoScalingGroup(vpc, securityGroup, env) ==
  [ id             |-> "AutoScalingGroup",
    vpc            |-> vpc.vpcName,
    launchTemplate |-> NewLaunchTemplate(securityGroup),
    vpcSubnets     |-> [subnetType |-> "PUBLIC"],
    \* no capacity is given: the group keeps one instance
    capacity       |-> 1,
    init           |-> fromElements(RecipeElements(env)),
    signals        |-> Signals ]

\* the subnets the group's instances are launched in
PlacementSubnets(vpc, asg) ==
  {s \in vpc.subnets : s.subnetType = asg.vpcSubnets.subnetType}

\* ---------------------------------------------------------------------------
\* Pipeline layer
\* ---------------------------------------------------------------------------
Artifact(name) == [artifactName |-> name]

\* reads the secret and embeds its value
SecretValueSecretsManager_PlainText(env, name) ==
  [dynamicReference |-> "plaintext", secretId |-> env.secrets[name]]

\* SecretValue.secretsManager(name): a reference to the secret by its name;
\* the store itself is not read
SecretValueSecretsManager(env, name) ==
  [dynamicReference |-> "secretsmanager", secretId |-> name]

GitHubSourceAction(env, output) ==
  [ actionName    |-> "Source",
    category      |-> "Source",
    inputs        |-> <<>>,
    outputs       |-> <<output>>,
    configuration |-> [ owner      |-> "RizaHKhan",
                        repo       |-> "laravel-app-for-cdk",
                        branch     |-> "master",
                        oauthToken |-> SecretValueSecretsManager(env, "github-token") ] ]

\* the build installs the recipe's packages as well
BuildSpecFromObject_InstallsPackages(env) ==
  [ version   |-> "0.2",
    phases    |-> [ install |-> [ runtimeVersions |-> [nodejs |-> "20.x", php |-> "8.3"],
                                  commands |-> [i \in 1..Len(env.packages) |-> env.packages[i]] \o
                                               << "npm install",
                                                  "curl -sS https://getcomposer.org/installer | php",
                                                  "php composer.phar install --no-dev --optimize-autoloader" >> ],
                    build   |-> [ commands |-> << "npm run build" >> ] ],
    artifacts |-> [ baseDirectory |-> "./", files |-> << "**/*" >> ] ]

\* the command lists of the two phases exchanged
BuildSpecFromObject_PhasesSwapped(env) ==
  [ version   |-> "0.2",
    phases    |-> [ install |-> [ runtimeVersions |-> [nodejs |-> "20.x", php |-> "8.3"],
                                  commands |-> << "npm run build" >> ],
                    build   |-> [ commands |-> << "npm install",
                                                  "curl -sS https://getcomposer.org/installer | php",
                                                  "php composer.phar install --no-dev --optimize-autoloader" >> ] ],
    artifacts |-> [ baseDirectory |-> "./", files |-> << "**/*" >> ] ]

BuildSpecFromObject(env) ==
  [ version   |-> "0.2",
    phases    |-> [ install |-> [ runtimeVersions |-> [nodejs |-> "20.x", php |-> "8.3"],
                                  commands |-> << "npm install",
                                                  "curl -sS https://getcomposer.org/installer | php",
                                                  "php composer.phar install --no-dev --optimize-autoloader" >> ],
                    build   |-> [ commands |-> << "npm run build" >> ] ],
    artifacts |-> [ baseDirectory |-> "./", files |-> << "**/*" >> ] ]

\* takes its own output for its input
CodeBuildAction_InputIsOutput(env, input, outputs) ==
  [ actionName    |-> "Build",
    category      |-> "Build",
    inputs        |-> outputs,
    outputs       |-> outputs,
    configuration |-> [ buildImage |-> "AMAZON_LINUX_2_5",
                        buildSpec  |-> BuildSpecFromObject(env) ] ]

CodeBuildAction(env, input, outputs) ==
  [ actionName    |-> "Build",
    category      |-> "Build",
    inputs        |-> <<input>>,
    outputs       |-> outputs,
    configuration |-> [ buildImage |-> "AMAZON_LINUX_2_5",
                        buildSpec  |-> BuildSpecFromObject(env) ] ]

ServerDeploymentGroup(autoScalingGroups) ==
  [ autoScalingGroups |-> [i \in DOMAIN autoScalingGroups |-> autoScalingGroups[i].id] ]

CodeDeployServerDeployAction(input, deploymentGroup) ==
  [ actionName    |-> "DeployToEc2",
    category      |-> "Deploy",
    inputs        |-> <<input>>,
    outputs       |-> <<>>,
    configuration |-> [ deploymentGroup |-> deploymentGroup ] ]

\* the Deploy stage written before the Build stage
PipelineStages_DeployBeforeBuild(env, autoScalingGroup, sourceArtifact, buildArtifact) ==
  << [ stageName |-> "Source",
       actions   |-> << GitHubSourceAction(env, sourceArtifact) >> ],
     [ stageName |-> "Deploy",
       actions   |-> << CodeDeployServerDeployAction(
                          buildArtifact, ServerDeploymentGroup(<<autoScalingGroup>>)) >> ],
     [ stageName |-> "Build",
       actions   |-> << CodeBuildAction(env, sourceArtifact, <<buildArtifact>>) >> ] >>

PipelineStages(env, autoScalingGroup, sourceArtifact, buildArtifact) ==
  << [ stageName |-> "Source",
       actions   |-> << GitHubSourceAction(env, sourceArtifact) >> ],
     [ stageName |-> "Build",
       actions   |-> << CodeBuildAction(env, sourceArtifact, <<buildArtifact>>) >> ],
     [ stageName |-> "Deploy",
       actions   |-> << CodeDeployServerDeployAction(
                          buildArtifact, ServerDeploymentGroup(<<autoScalingGroup>>)) >> ] >>

NewPipeline(env, autoScalingGroup, sourceArtifact, buildArtifact) ==
  [ pipelineName   |-> "Laravel-pipeline",
    role           |-> [ assumedBy |-> <<"codebuild.amazonaws.com", "codepipeline.amazonaws.com">>,
                         inlinePolicies |-> <<"CdkDeployPermissions">> ],
    artifactBucket |-> [ removalPolicy |-> "DESTROY" ],
    stages         |-> PipelineStages(env, autoScalingGroup, sourceArtifact, buildArtifact) ]

\* ---------------------------------------------------------------------------
\* The constructor, statement by statement, as a function of the template
\* ---------------------------------------------------------------------------
EmptyTemplate ==
  [ vpcs |-> <<>>, securityGroups |-> <<>>, autoScalingGroups |-> <<>>,
    artifacts |-> <<>>, pipelines |-> <<>> ]

StmtVpc(t) == [t EXCEPT !.vpcs = Append(@, NewVpc)]

StmtSecurityGroup(t) ==
  [t EXCEPT !.securityGroups = Append(@, NewSecurityGroup(t.vpcs[1]))]

StmtAddIngressRule(t, i) ==
  [t EXCEPT !.securityGroups[1] =
     addIngressRule(@, IngressCalls[i].peer, IngressCalls[i].port, IngressCalls[i].description)]

StmtAutoScalingGroup(t, env) ==
  [t EXCEPT !.autoScalingGroups =
     Append(@, NewAutoScalingGroup(t.vpcs[1], t.securityGroups[1], env))]

StmtArtifacts(t) ==
  [t EXCEPT !.artifacts = @ \o << Artifact("SourceArtifact"), Artifact("BuildArtifact") >>]

StmtPipeline(t, env) ==
  [t EXCEPT !.pipelines =
     Append(@, NewPipeline(env, t.autoScalingGroups[1], t.artifacts[1], t.artifacts[2]))]

RECURSIVE AddIngressRulesFrom(_, _)
AddIngressRulesFrom(t, i) ==
  IF i > Len(IngressCalls) THEN t ELSE AddIngressRulesFrom(StmtAddIngressRule(t, i), i + 1)

\* new CfninitStack(app, "CfninitStack", {}): the whole constructor
Synth(env) ==
  StmtPipeline(
    StmtArtifacts(
      StmtAutoScalingGroup(
        AddIngressRulesFrom(StmtSecurityGroup(StmtVpc(EmptyTemplate)), 1),
        env)),
    env)

\* the sections of a template
NetworkSection(t) == [vpcs |-> t.vpcs, securityGroups |-> t.securityGroups]

PipelineSection(t) == [artifacts |-> t.artifacts, pipelines |-> t.pipelines]

BootstrapPayload(t) == t.autoScalingGroups[1].init

\* ---------------------------------------------------------------------------
\* State
\* ---------------------------------------------------------------------------
VARIABLES
  packages,      \* the recipe's package list
  secretStore,   \* the account's secrets: name -> value
  rotations,     \* how often the secret has been replaced
  pc,            \* the constructor's next statement
  nextIngress,   \* the next addIngressRule call
  template,      \* what the constructor has declared so far
  stack,         \* the CloudFormation stack made from the template
  clock,         \* minutes since the group began waiting for signals
  rollout,       \* the group's creation policy: status and signals counted
  instances,     \* the group's instances
  pipelineToken, \* the OAuth token held by the created pipeline
  resolutions,   \* every resolution of a secret reference so far
  execCount,     \* pipeline executions started
  exec           \* the current pipeline execution

vars == << packages, secretStore, rotations, pc, nextIngress, template, stack,
           clock, rollout, instances, pipelineToken, resolutions, execCount, exec >>

ctorVars == << pc, nextIngress, template >>

platformVars == << stack, clock, rollout, instances, pipelineToken, resolutions,
                   execCount, exec >>

Env == [packages |-> packages, secrets |-> secretStore]

NoExecution ==
  [ status |-> "None", stageStatus |-> <<>>, store |-> {}, ran |-> <<>>,
    failed |-> <<>>, deployedTo |-> <<>>, deployedArtifact |-> <<>> ]

NewInstance ==
  [ phase |-> "off", boots |-> 0, initRuns |-> 0, applied |-> <<>>, signalled |-> "none" ]

Init ==
  /\ packages \in PackageLists
  /\ secretStore \in [SecretNames -> SecretValues]
  /\ rotations = 0
  /\ pc = "vpc"
  /\ nextIngress = 1
  /\ template = EmptyTemplate
  /\ stack = "NONE"
  /\ clock = 0
  /\ rollout = [status |-> "none", successes |-> 0, failures |-> 0]
  /\ instances = <<>>
  /\ pipelineToken = <<>>
  /\ resolutions = {}
  /\ execCount = 0
  /\ exec = NoExecution

\* ---------------------------------------------------------------------------
\* The constructor
\* ---------------------------------------------------------------------------
ConstructVpc ==
  /\ pc = "vpc"
  /\ template' = StmtVpc(template)
  /\ pc' = "securityGroup"
  /\ UNCHANGED << packages, secretStore, rotations, nextIngress, platformVars >>

ConstructSecurityGroup ==
  /\ pc = "securityGroup"
  /\ template' = StmtSecurityGroup(template)
  /\ pc' = "addIngressRule"
  /\ UNCHANGED << packages, secretStore, rotations, nextIngress, platformVars >>

AddIngressRule ==
  /\ pc = "addIngressRule"
  /\ nextIngress <= Len(IngressCalls)
  /\ template' = StmtAddIngressRule(template, nextIngress)
  /\ nextIngress' = nextIngress + 1
  /\ pc' = IF nextIngress = Len(IngressCalls) THEN "autoScalingGroup" ELSE pc
  /\ UNCHANGED << packages, secretStore, rotations, platformVars >>

ConstructAutoScalingGroup ==
  /\ pc = "autoScalingGroup"
  /\ template' = StmtAutoScalingGroup(template, Env)
  /\ pc' = "artifacts"
  /\ UNCHANGED << packages, secretStore, rotations, nextIngress, platformVars >>

ConstructArtifacts ==
  /\ pc = "artifacts"
  /\ template' = StmtArtifacts(template)
  /\ pc' = "pipeline"
  /\ UNCHANGED << packages, secretStore, rotations, nextIngress, platformVars >>

ConstructPipeline ==
  /\ pc = "pipeline"
  /\ template' = StmtPipeline(template, Env)
  /\ pc' = "synthesized"
  /\ UNCHANGED << packages, secretStore, rotations, nextIngress, platformVars >>

\* ---------------------------------------------------------------------------
\* The secret store
\* ---------------------------------------------------------------------------
RotateSecret(name, value) ==
  /\ rotations < MaxRotations
  /\ secretStore[name] # value
  /\ secretStore' = [secretStore EXCEPT ![name] = value]
  /\ rotations' = rotations + 1
  /\ UNCHANGED << packages, ctorVars, platformVars >>

\* ---------------------------------------------------------------------------
\* CloudFormation: the stack, the group's creation policy, its instances
\* ---------------------------------------------------------------------------
Group == template.autoScalingGroups[1]

\* the stack is created from the finished template; the group launches its
\* instances and starts waiting for their signals
CreateStack ==
  /\ pc = "synthesized"
  /\ stack = "NONE"
  /\ stack' = "CREATE_IN_PROGRESS"
  /\ instances' = [i \in 1..Group.capacity |-> NewInstance]
  /\ rollout' = [status |-> "waiting", successes |-> 0, failures |-> 0]
  /\ clock' = 0
  /\ UNCHANGED << packages, secretStore, rotations, ctorVars, pipelineToken,
                  resolutions, execCount, exec >>

\* the creation policy given the signals counted so far
QuorumMet(signals, successes) ==
  successes * 100 >= signals.minSuccessPercentage * signals.count

QuorumLost(signals, failures) ==
  failures * 100 > (100 - signals.minSuccessPercentage) * signals.count

Evaluate(signals, successes, failures) ==
  IF QuorumMet(signals, successes) THEN "healthy"
  ELSE IF QuorumLost(signals, failures) THEN "failed"
  ELSE "waiting"

\* user data runs on an instance's first boot only; it runs cfn-init
Boot(i) ==
  /\ i \in DOMAIN instances
  /\ instances[i].phase = "off"
  /\ instances[i].boots < MaxBoots
  /\ instances' = [instances EXCEPT ![i] =
       IF @.boots = 0
       THEN [@ EXCEPT !.boots = 1, !.phase = "init", !.initRuns = @ + 1]
       ELSE [@ EXCEPT !.boots = @ + 1, !.phase = "up"]]
  /\ UNCHANGED << packages, secretStore, rotations, ctorVars, stack, clock, rollout,
                  pipelineToken, resolutions, execCount, exec >>

\* cfn-init applies the next step of the rendered config; a step that fails
\* ends the run
RunInitStep(i, ok) ==
  /\ i \in DOMAIN instances
  /\ instances[i].phase = "init"
  /\ LET steps == cfnInitSteps(Group.init)
         done  == instances[i].applied
     IN  /\ Len(done) < Len(steps)
         /\ instances' = [instances EXCEPT ![i] =
              IF ~ok THEN [@ EXCEPT !.phase = "initFailed"]
              ELSE [@ EXCEPT !.applied = Append(@, steps[Len(done) + 1]),
                             !.phase = IF Len(done) + 1 = Len(steps)
                                       THEN "initDone" ELSE "init"]]
  /\ UNCHANGED << packages, secretStore, rotations, ctorVars, stack, clock, rollout,
                  pipelineToken, resolutions, execCount, exec >>

\* cfn-signal reports cfn-init's result; a signal counts while the group is
\* still waiting, and the creation policy is evaluated as it arrives
SendSignal(i) ==
  /\ i \in DOMAIN instances
  /\ instances[i].phase \in {"initDone", "initFailed"}
  /\ instances[i].signalled = "none"
  /\ LET success == instances[i].phase = "initDone"
         counted == rollout.status = "waiting" /\ clock < Group.signals.timeout
         succ    == rollout.successes + (IF success THEN 1 ELSE 0)
         fail    == rollout.failures + (IF success THEN 0 ELSE 1)
         verdict == Evaluate(Group.signals, succ, fail)
     IN  /\ instances' = [instances EXCEPT ![i] =
              [@ EXCEPT !.signalled = IF success THEN "success" ELSE "failure",
                        !.phase = "up"]]
         /\ rollout' = IF counted
                       THEN [status |-> verdict, successes |-> succ, failures |-> fail]
                       ELSE rollout
         /\ stack' = IF counted /\ verdict = "failed" THEN "ROLLBACK_COMPLETE" ELSE stack
  /\ UNCHANGED << packages, secretStore, rotations, ctorVars, clock,
                  pipelineToken, resolutions, execCount, exec >>

\* a minute passes while the group waits; at the timeout the wait ends in
\* failure and the stack is rolled back
Tick ==
  /\ rollout.status = "waiting"
  /\ clock < Group.signals.timeout
  /\ clock' = clock + 1
  /\ rollout' = IF clock + 1 >= Group.signals.timeout
                THEN [rollout EXCEPT !.status = "failed"] ELSE rollout
  /\ stack' = IF clock + 1 >= Group.signals.timeout THEN "ROLLBACK_COMPLETE" ELSE stack
  /\ UNCHANGED << packages, secretStore, rotations, ctorVars, instances,
                  pipelineToken, resolutions, execCount, exec >>

\* an instance is stopped, to be booted again later
StopInstance(i) ==
  /\ i \in DOMAIN instances
  /\ instances[i].phase = "up"
  /\ instances[i].boots < MaxBoots
  /\ instances' = [instances EXCEPT ![i].phase = "off"]
  /\ UNCHANGED << packages, secretStore, rotations, ctorVars, stack, clock, rollout,
                  pipelineToken, resolutions, execCount, exec >>

\* every secret reference in the pipeline's source action
SecretReferences(t) ==
  { t.pipelines[1].stages[i].actions[j].configuration.oauthToken :
      i \in {k \in DOMAIN t.pipelines[1].stages :
               t.pipelines[1].stages[k].actions[1].category = "Source"},
      j \in {1} }

\* once the group is healthy the pipeline resource is created; CloudFormation
\* resolves the dynamic reference in its properties during this stack
\* operation and hands the value to the pipeline
CreatePipelineResource ==
  /\ stack = "CREATE_IN_PROGRESS"
  /\ rollout.status = "healthy"
  /\ \E ref \in SecretReferences(template) :
       /\ pipelineToken' = << secretStore[ref.secretId] >>
       /\ resolutions' = resolutions \cup
            { [ by |-> "CloudFormation", phase |-> "stack-operation",
                secretId |-> ref.secretId, value |-> secretStore[ref.secretId] ] }
  /\ stack' = "CREATE_COMPLETE"
  /\ UNCHANGED << packages, secretStore, rotations, ctorVars, clock, rollout,
                  instances, execCount, exec >>

\* ---------------------------------------------------------------------------
\* CodePipeline: one execution at a time through the declared stages
\* ---------------------------------------------------------------------------
Stages == template.pipelines[1].stages

ActionOf(i) == Stages[i].actions[1]

ArtifactNames(artifacts) == {artifacts[k].artifactName : k \in DOMAIN artifacts}

\* the stage in progress whose action has the given category, if any
Running(category) ==
  {i \in DOMAIN exec.stageStatus :
     exec.stageStatus[i] = "InProgress" /\ ActionOf(i).category = category}

\* CodeBuild runs the install phase, then the build phase, each phase's
\* commands in the order listed
BuildCommands(buildSpec) ==
  buildSpec.phases.install.commands \o buildSpec.phases.build.commands

StartExecution ==
  /\ stack = "CREATE_COMPLETE"
  /\ exec.status # "InProgress"
  /\ execCount < MaxExecutions
  /\ execCount' = execCount + 1
  /\ exec' = [ NoExecution EXCEPT
                 !.status = "InProgress",
                 !.stageStatus = [i \in DOMAIN Stages |->
                                    IF i = 1 THEN "InProgress" ELSE "NotStarted"] ]
  /\ UNCHANGED << packages, secretStore, rotations, ctorVars, stack, clock, rollout,
                  instances, pipelineToken, resolutions >>

\* a stage starts when the stage before it has succeeded; its action's input
\* artifacts are then in the artifact store
StartStage(i) ==
  /\ exec.status = "InProgress"
  /\ i \in DOMAIN exec.stageStatus
  /\ i > 1
  /\ exec.stageStatus[i] = "NotStarted"
  /\ exec.stageStatus[i - 1] = "Succeeded"
  /\ ArtifactNames(ActionOf(i).inputs) \subseteq exec.store
  /\ exec' = [exec EXCEPT !.stageStatus[i] = "InProgress"]
  /\ UNCHANGED << packages, secretStore, rotations, ctorVars, stack, clock, rollout,
                  instances, pipelineToken, resolutions, execCount >>

\* how a stage ends: its outputs reach the store only if it succeeded; the
\* execution ends when a stage fails or the last stage succeeds
EndStage(e, i, ok) ==
  [ e EXCEPT
      !.stageStatus[i] = IF ok THEN "Succeeded" ELSE "Failed",
      !.store = IF ok THEN @ \cup ArtifactNames(ActionOf(i).outputs) ELSE @,
      !.status = IF ~ok THEN "Failed"
                 ELSE IF i = Len(e.stageStatus) THEN "Succeeded" ELSE @ ]

\* the source action pulls the branch with the token the pipeline holds
RunSourceAction(ok) ==
  /\ exec.status = "InProgress"
  /\ pipelineToken # <<>>
  /\ \E i \in Running("Source") : exec' = EndStage(exec, i, ok)
  /\ UNCHANGED << packages, secretStore, rotations, ctorVars, stack, clock, rollout,
                  instances, pipelineToken, resolutions, execCount >>

\* the build runs its next command; a command that fails ends the build and
\* the stage, and nothing is run again
RunBuildCommand(ok) ==
  /\ exec.status = "InProgress"
  /\ \E i \in Running("Build") :
       LET cmds == BuildCommands(ActionOf(i).configuration.buildSpec)
           cmd  == cmds[Len(exec.ran) + 1]
       IN  /\ Len(exec.ran) < Len(cmds)
           /\ exec' = IF ok THEN [exec EXCEPT !.ran = Append(@, cmd)]
                      ELSE EndStage([exec EXCEPT !.ran = Append(@, cmd),
                                                 !.failed = Append(@, cmd)], i, FALSE)
  /\ UNCHANGED << packages, secretStore, rotations, ctorVars, stack, clock, rollout,
                  instances, pipelineToken, resolutions, execCount >>

\* when every command has completed the files matched by the artifacts
\* section are captured as the action's output
UploadArtifacts ==
  /\ exec.status = "InProgress"
  /\ \E i \in Running("Build") :
       /\ Len(exec.ran) = Len(BuildCommands(ActionOf(i).configuration.buildSpec))
       /\ exec' = EndStage(exec, i, TRUE)
  /\ UNCHANGED << packages, secretStore, rotations, ctorVars, stack, clock, rollout,
                  instances, pipelineToken, resolutions, execCount >>

\* CodeDeploy deploys the input artifact to the deployment group's groups
RunDeployAction(ok) ==
  /\ exec.status = "InProgress"
  /\ \E i \in Running("Deploy") :
       exec' = EndStage([exec EXCEPT
                           !.deployedTo = ActionOf(i).configuration.deploymentGroup.autoScalingGroups,
                           !.deployedArtifact = ActionOf(i).inputs],
                        i, ok)
  /\ UNCHANGED << packages, secretStore, rotations, ctorVars, stack, clock, rollout,
                  instances, pipelineToken, resolutions, execCount >>

\* ---------------------------------------------------------------------------
\* Specification
\* ---------------------------------------------------------------------------
Next ==
  \/ ConstructVpc
  \/ ConstructSecurityGroup
  \/ AddIngressRule
  \/ ConstructAutoScalingGroup
  \/ ConstructArtifacts
  \/ ConstructPipeline
  \/ \E n \in SecretNames, v \in SecretValues : RotateSecret(n, v)
  \/ CreateStack
  \/ \E i \in DOMAIN instances : Boot(i)
  \/ \E i \in DOMAIN instances, ok \in BOOLEAN : RunInitStep(i, ok)
  \/ \E i \in DOMAIN instances : SendSignal(i)
  \/ Tick
  \/ \E i \in DOMAIN instances : StopInstance(i)
  \/ CreatePipelineResource
  \/ StartExecution
  \/ \E i \in DOMAIN exec.stageStatus : StartStage(i)
  \/ \E ok \in BOOLEAN : RunSourceAction(ok)
  \/ \E ok \in BOOLEAN : RunBuildCommand(ok)
  \/ UploadArtifacts
  \/ \E ok \in BOOLEAN : RunDeployAction(ok)

Spec == Init /\ [][Next]_vars

\* ---------------------------------------------------------------------------
\* Properties
\* ---------------------------------------------------------------------------
Synthesized == pc = "synthesized"

\* the constructor has returned and its template has not been deployed yet
Constructed == Synthesized /\ stack = "NONE"

IsPrefix(a, b) == Len(a) <= Len(b) /\ \A k \in DOMAIN a : a[k] = b[k]

\* a list without its repeated entries, each kept where it first occurs
RECURSIVE Distinct(_)
Distinct(q) ==
  IF q = <<>> THEN <<>>
  ELSE LET front == Distinct(SubSeq(q, 1, Len(q) - 1))
       IN  IF q[Len(q)] \in Range(front) THEN front ELSE Append(front, q[Len(q)])

StageNames == [i \in DOMAIN Stages |-> Stages[i].stageName]

\* C1: the pipeline has exactly the stages Source, Build, Deploy in that
\* order; in an execution a stage has started only if the stage before it
\* has succeeded; the Deploy stage targets the one declared auto-scaling
\* group and no other, and a deployment goes to that group.
C1_OrderedStagesDeployToGroup ==
  /\ Synthesized =>
       /\ Len(template.pipelines) = 1
       /\ StageNames = << "Source", "Build", "Deploy" >>
       /\ Len(template.autoScalingGroups) = 1
       /\ ActionOf(3).configuration.deploymentGroup.autoScalingGroups
            = << template.autoScalingGroups[1].id >>
  /\ \A i \in DOMAIN exec.stageStatus :
       (i > 1 /\ exec.stageStatus[i] # "NotStarted") => exec.stageStatus[i - 1] = "Succeeded"
  /\ exec.deployedTo # <<>> => exec.deployedTo = << template.autoScalingGroups[1].id >>

C1_Witness ==
  /\ exec.status = "Succeeded"
  /\ Len(exec.stageStatus) = 3
  /\ exec.stageStatus[3] = "Succeeded"
  /\ exec.deployedTo = << "AutoScalingGroup" >>

\* C2: after construction the security group has exactly three ingress
\* rules, on the ports 443, 80 and 22, each from 0.0.0.0/0; every rule of
\* the group allows, and outbound traffic is unrestricted.
C2_ThreeOpenIngressRules ==
  Synthesized =>
    LET sg == template.securityGroups[1]
    IN  /\ Len(template.securityGroups) = 1
        /\ Len(sg.ingress) = 3
        /\ {sg.ingress[k].port.fromPort : k \in DOMAIN sg.ingress} = {443, 80, 22}
        /\ \A k \in DOMAIN sg.ingress :
             /\ sg.ingress[k].port.toPort = sg.ingress[k].port.fromPort
             /\ sg.ingress[k].port.protocol = "tcp"
             /\ sg.ingress[k].peer.cidrIp = "0.0.0.0/0"
             /\ sg.ingress[k].effect = "allow"
        /\ sg.allowAllOutbound
        /\ Len(sg.egress) = 1
        /\ \A k \in DOMAIN sg.egress :
             /\ sg.egress[k].effect = "allow"
             /\ sg.egress[k].peer.cidrIp = "0.0.0.0/0"
             /\ sg.egress[k].port = AllTraffic

C2_Witness ==
  /\ Synthesized
  /\ nextIngress = 4
  /\ Len(template.securityGroups[1].ingress) = 3

\* C3: the group's declared success quorum is 80 percent and its declared
\* signal timeout is 5 minutes, so the quorum lies in 0..100 and the
\* timeout is positive.
C3_QuorumAndTimeout ==
  Len(template.autoScalingGroups) > 0 =>
    LET sig == template.autoScalingGroups[1].signals
    IN  /\ sig.minSuccessPercentage = 80
        /\ sig.timeout = 5
        /\ sig.minSuccessPercentage \in 0..100
        /\ sig.timeout > 0

C3_Witness ==
  /\ Synthesized
  /\ Len(template.autoScalingGroups) = 1
  /\ template.autoScalingGroups[1].signals.count = 1

\* C4: the network layer is exactly one VPC with CIDR 10.0.0.0/16, exactly
\* one subnet tier, which is public, and exactly one NAT gateway; the
\* auto-scaling group is placed in that public tier.
C4_OneNetworkOnePublicTier ==
  Synthesized =>
    LET vpc == template.vpcs[1]
        asg == template.autoScalingGroups[1]
    IN  /\ Len(template.vpcs) = 1
        /\ vpc.ipAddresses = "10.0.0.0/16"
        /\ Len(vpc.subnetConfiguration) = 1
        /\ vpc.subnetConfiguration[1].subnetType = "PUBLIC"
        /\ \A sn \in vpc.subnets : sn.subnetType = "PUBLIC"
        /\ vpc.natGateways = 1
        /\ asg.vpc = vpc.vpcName
        /\ PlacementSubnets(vpc, asg) # {}
        /\ PlacementSubnets(vpc, asg) = vpc.subnets
        /\ \A sn \in PlacementSubnets(vpc, asg) : sn.tier = vpc.subnetConfiguration[1].name

C4_Witness ==
  /\ Synthesized
  /\ Cardinality(PlacementSubnets(template.vpcs[1], template.autoScalingGroups[1])) = 1

\* the template the constructor would have produced for another package list
Alternative(p) == Synth([Env EXCEPT !.packages = p])

SuccessSignals == {i \in DOMAIN instances : instances[i].signalled = "success"}

\* C6: the group is healthy only if at least 80 percent of the 1 awaited
\* signal are success signals counted before the 5 minute timeout; if the
\* timeout is reached without that quorum the creation has failed, and a
\* failed creation never becomes healthy.
C6_HealthyOnlyOnQuorumInTime ==
  /\ [](rollout.status = "healthy" =>
          /\ rollout.successes * 100 >= 80 * 1
          /\ rollout.successes <= Cardinality(SuccessSignals)
          /\ clock < 5)
  /\ [](clock >= 5 => rollout.status = "failed")
  /\ [](rollout.status = "failed" =>
          /\ rollout.successes * 100 < 80 * 1
          /\ stack = "ROLLBACK_COMPLETE")
  /\ [][rollout.status = "failed" => rollout'.status = "failed"]_vars

\* the timeout passed, and a success signal that came after it changed nothing
C6_Witness ==
  /\ rollout.status = "failed"
  /\ clock = 5
  /\ SuccessSignals # {}

ExpectedBuildCommands ==
  << "npm install",
     "curl -sS https://getcomposer.org/installer | php",
     "php composer.phar install --no-dev --optimize-autoloader",
     "npm run build" >>

\* C7: the Source action's only output, SourceArtifact, is the Build
\* action's only input; the Build action's only output, BuildArtifact, is
\* the Deploy action's only input; every artifact a stage consumes is an
\* output of a strictly earlier stage, and is in the store when the stage
\* runs.
C7_OneArtifactPerHandOff ==
  /\ Synthesized =>
       /\ ActionOf(1).inputs = <<>>
       /\ ActionOf(1).outputs = << Artifact("SourceArtifact") >>
       /\ ActionOf(2).inputs = ActionOf(1).outputs
       /\ ActionOf(2).outputs = << Artifact("BuildArtifact") >>
       /\ ActionOf(3).inputs = ActionOf(2).outputs
       /\ ActionOf(3).outputs = <<>>
       /\ \A i \in DOMAIN Stages : Len(Stages[i].actions) = 1
       /\ \A i \in DOMAIN Stages :
            \A a \in Range(ActionOf(i).inputs) :
              \E j \in 1..(i - 1) : a \in Range(ActionOf(j).outputs)
  /\ \A i \in DOMAIN exec.stageStatus :
       exec.stageStatus[i] # "NotStarted" =>
         ArtifactNames(ActionOf(i).inputs) \subseteq exec.store
  /\ exec.deployedArtifact # <<>> => exec.deployedArtifact = << Artifact("BuildArtifact") >>

C7_Witness ==
  /\ exec.deployedArtifact = << Artifact("BuildArtifact") >>
  /\ exec.store = {"SourceArtifact", "BuildArtifact"}

StepTypes(steps) == [k \in DOMAIN steps |-> steps[k].elementType]

\* where in a run of cfn-init a step with the given type and key took effect
Position(steps, type, key) ==
  {k \in DOMAIN steps : steps[k].elementType = type /\ steps[k].key = key}

Before(steps, typeA, keyA, typeB, keyB) ==
  \A b \in Position(steps, typeB, keyB) :
    \E a \in Position(steps, typeA, keyA) : a < b

OrderedBy(steps, rank) ==
  \A a, b \in DOMAIN steps : a < b => rank[steps[a].elementType] <= rank[steps[b].elementType]

OnceOnFirstBoot(inst) ==
  /\ inst.initRuns <= 1
  /\ inst.boots >= 1 => inst.initRuns = 1
  /\ \A a, b \in DOMAIN inst.applied : a # b => inst.applied[a] # inst.applied[b]

TemplateHidesSecret ==
  /\ Synthesized =>
       \A ref \in SecretReferences(template) :
         /\ ref.dynamicReference = "secretsmanager"
         /\ ref.secretId = "github-token"
  /\ Constructed =>
       \A store \in [SecretNames -> SecretValues] :
         Synth([Env EXCEPT !.secrets = store]) = template

====
